---- MODULE Spec2Model ----
\* A model of googleplaces/__init__.py: the GooglePlaces client (query,
\* checkin, get_place), geocode_location, the response validator and the
\* two-state Place entity (summary / detailed).
EXTENDS Integers, Sequences, FiniteSets, TLC

VARIABLES
    sensor,          \* GooglePlaces._sensor
    lat_lng,         \* GooglePlaces._lat_lng (unset until the first query)
    request_params,  \* GooglePlaces._request_params: None or a reference to a dict
    dicts,           \* the parameter dicts on the heap, one per thread that built one
    pc,              \* position of each thread inside query()
    call,            \* per thread: the operation in progress or last completed
    places,          \* every Place object constructed so far
    last_sensor      \* history: sensor argument of the latest query() past line 158

vars == <<sensor, lat_lng, request_params, dicts, pc, call, places, last_sensor>>

\* ---------------------------------------------------------------- bounds
MaxPlaces == 1
MaxDetailRequests == 2

Threads == {"t1", "t2"}
MainThread == "t1"

\* ------------------------------------------------------- program constants
MAXIMUM_SEARCH_RADIUS == 50000
DEFAULT_RADIUS == 3200
RESPONSE_STATUS_OK == "OK"
RESPONSE_STATUS_ZERO_RESULTS == "ZERO_RESULTS"
GEOCODE_API_URL == "geocode"
QUERY_API_URL == "search"
DETAIL_API_URL == "details"
CHECKIN_API_URL == "check-in"
api_key == "KEY"

\* Python's None and a present value
None == <<>>
Some(v) == <<v>>

\* ------------------------------------------------------------ input sets
L1 == [lat |-> 1, lng |-> 2]
L2 == [lat |-> 3, lng |-> 4]
Statuses == {RESPONSE_STATUS_OK, RESPONSE_STATUS_ZERO_RESULTS, "REQUEST_DENIED"}
Refs == {"r1", "r2"}
Radii == {DEFAULT_RADIUS, MAXIMUM_SEARCH_RADIUS, MAXIMUM_SEARCH_RADIUS + 1}

\* The detail-only fields a Place exposes (lines 333-387)
DetailFields == {"details", "formatted_address", "local_phone_number",
                 "international_phone_number", "website", "url",
                 "html_attributions"}

\* ------------------------------------------------------------- exceptions
NoError == [exc |-> "", msg |-> <<>>]
Raise(exc, msg) == [exc |-> exc, msg |-> msg]
URLError == Raise("URLError", <<>>)
KeyError(k) == Raise("KeyError", <<k>>)
IndexError == Raise("IndexError", <<>>)
TypeError == Raise("TypeError", <<>>)

\* str(sensor).lower()
SensorStr(s) == IF s THEN "true" ELSE "false"

\* '%(lat)s,%(lng)s' % lat_lng
LatLngStr(ll) == <<ll.lat, ",", ll.lng>>

\* '|'.join(types)
RECURSIVE Join(_)
Join(types) ==
    IF Len(types) = 0 THEN <<>>
    ELSE IF Len(types) = 1 THEN <<types[1]>>
    ELSE <<types[1], "|">> \o Join(Tail(types))

\* _fetch_remote_json: the request that is put on the wire.  A GET carries
\* the url-encoded params in the url, a POST carries them as the body.
_fetch_remote_json(service_url, params, use_http_post) ==
    IF ~use_http_post
    THEN [method |-> "GET", url |-> [base |-> service_url, query |-> params], body |-> None]
    ELSE [method |-> "POST", url |-> service_url, body |-> Some(params)]

\* _validate_response(url, response)
ValidStatusesAll(status) == TRUE
ValidStatuses(status) ==
    status \in {RESPONSE_STATUS_OK, RESPONSE_STATUS_ZERO_RESULTS}

_validate_response(url, response) ==
    IF ~ValidStatuses(response.status)
    THEN Raise("GooglePlacesError",
               <<"Request to URL ", url, " failed with response code: ", response.status>>)
    ELSE NoError

\* A network reply: None when urlopen raises, otherwise the decoded JSON body.
Replies(bodies) == {None} \cup {Some(b) : b \in bodies}

\* geocode_location(location, sensor) against a given reply: the request it
\* sends, the exception it raises (if any) and the value it returns.
GeocodeZeroCheckNever(status) == FALSE
GeocodeZeroCheck(status) == status = RESPONSE_STATUS_ZERO_RESULTS

geocode_location(location, sensor_arg, reply) ==
    LET req == _fetch_remote_json(GEOCODE_API_URL,
                   [address |-> location, sensor |-> SensorStr(sensor_arg)], FALSE)
    IN  IF reply = None THEN [req |-> req, err |-> URLError, ret |-> None]
        ELSE LET geo_response == reply[1]
                 v == _validate_response(req.url, geo_response)
             IN  IF v # NoError THEN [req |-> req, err |-> v, ret |-> None]
                 ELSE IF GeocodeZeroCheck(geo_response.status)
                 THEN [req |-> req,
                       err |-> Raise("GooglePlacesError",
                                 <<"Lat/Lng for location '", location, "' can't be determined.">>),
                       ret |-> None]
                 ELSE IF Len(geo_response.results) = 0
                 THEN [req |-> req, err |-> IndexError, ret |-> None]
                 ELSE [req |-> req, err |-> NoError, ret |-> Some(geo_response.results[1])]

\* _get_place_details(reference, api_key, sensor) against a given reply
_get_place_details(reference, key, sensor_arg, reply) ==
    LET req == _fetch_remote_json(DETAIL_API_URL,
                   [reference |-> reference, sensor |-> SensorStr(sensor_arg), key |-> key],
                   FALSE)
    IN  IF reply = None THEN [req |-> req, err |-> URLError, ret |-> None]
        ELSE LET detail_response == reply[1]
                 v == _validate_response(req.url, detail_response)
             IN  IF v # NoError THEN [req |-> req, err |-> v, ret |-> None]
                 ELSE IF "result" \notin DOMAIN detail_response
                 THEN [req |-> req, err |-> KeyError("result"), ret |-> None]
                 ELSE [req |-> req, err |-> NoError, ret |-> Some(detail_response.result)]

\* ------------------------------------------------------------------ Place
\* place_data is a JSON object (a function on its keys) or JSON null (None).
\* dict.get(key, default)
Get(d, key, default) == IF key \in DOMAIN d THEN d[key] ELSE default

\* Place.__init__: the stored detail payload is None unless the data has a
\* non-null address_components entry.  Besides _reference and _details the
\* record keeps three history fields: the number of detail requests
\* get_details() has issued for the Place, whether get_details() was ever
\* called on it, and the result a get_details() call stored.
HasDetailShape(place_data) == Get(place_data, "address_components", None) # None

Place(place_data) ==
    [reference |-> place_data["reference"],
     details |-> IF ~HasDetailShape(place_data) THEN None ELSE Some(place_data),
     detail_requests |-> 0,
     called |-> FALSE,
     fetched |-> None]

\* Summary / Detailed
IsSummary(place) == place.details = None
IsDetailed(place) == place.details # None

\* Place._validate_status
AttributeError ==
    Raise("GooglePlacesAttributeError",
          <<"The attribute requested is only available after an explicit call to get_details() is made.">>)
_validate_status(place) == IF place.details = None THEN AttributeError ELSE NoError

\* The key each detail property looks up (lines 349-387)
LocalPhoneKeyWrong == "local_phone_number"
LocalPhoneKey == "formatted_phone_number"
FieldKey(field) == IF field = "local_phone_number" THEN LocalPhoneKey ELSE field
FieldDefault(field) == IF field = "html_attributions" THEN Some(<<>>) ELSE None

\* What the payload d yields for a detail field: the payload itself for
\* details, d.get(key) otherwise (None when the key is missing, [] for
\* html_attributions).
FieldOf(d, field) ==
    IF field = "details" THEN Some(d)
    ELSE IF FieldKey(field) \in DOMAIN d THEN Some(d[FieldKey(field)])
    ELSE FieldDefault(field)

\* Reading a detail property of a Place
ReadProperty(place, field) ==
    LET v == _validate_status(place)
    IN  IF v # NoError THEN [err |-> v, ret |-> None]
        ELSE [err |-> NoError, ret |-> FieldOf(place.details[1], field)]

\* -------------------------------------------------------------- call record
NoCall == [op |-> "none", args |-> <<>>, net |-> <<>>, err |-> NoError,
           ret |-> None, done |-> TRUE, radius |-> 0, lat_lng_str |-> <<>>,
           geo |-> None]

NewCall(op, args) == [NoCall EXCEPT !.op = op, !.args = args, !.done = FALSE]
Finish(c, err, ret) == [c EXCEPT !.err = err, !.ret = ret, !.done = TRUE]

Init ==
    /\ sensor = FALSE
    /\ lat_lng = None
    /\ request_params = None
    /\ dicts = [t \in Threads |-> <<>>]
    /\ pc = [t \in Threads |-> "idle"]
    /\ call = [t \in Threads |-> NoCall]
    /\ places = <<>>
    /\ last_sensor = FALSE

\* ------------------------------------------------------ GooglePlaces.query
\* MAXIMUM_SEARCH_RADIUS clamp, lines 162-163
ClampRadiusNone(radius) == radius
ClampRadius(radius) ==
    IF radius <= MAXIMUM_SEARCH_RADIUS THEN radius ELSE MAXIMUM_SEARCH_RADIUS

\* A search is impossible without a position, line 157
MissingPositionEither(a) == a.location = None \/ a.lat_lng = None
MissingPosition(a) == a.location = None /\ a.lat_lng = None

ValueError == Raise("ValueError", <<"One of location or lat_lng must be passed in.">>)

\* The dict self._request_params refers to
Target == request_params[1]
SetItem(key, value) == [dicts EXCEPT ![Target] = (key :> value) @@ @]

\* lines 157-159: the argument check, then self._sensor = sensor
QueryBegin(t, a) ==
    /\ pc[t] = "idle"
    /\ IF MissingPosition(a)
       THEN /\ call' = [call EXCEPT ![t] = Finish(NewCall("query", a), ValueError, None)]
            /\ UNCHANGED <<sensor, last_sensor, pc>>
       ELSE /\ sensor' = a.sensor
            /\ last_sensor' = a.sensor
            /\ call' = [call EXCEPT ![t] = NewCall("query", a)]
            /\ pc' = [pc EXCEPT ![t] = "q_latlng"]
    /\ UNCHANGED <<lat_lng, request_params, dicts, places>>

\* lines 160-161 with lat_lng given: self._lat_lng = lat_lng
QueryLatLng(t) ==
    /\ pc[t] = "q_latlng"
    /\ call[t].args.lat_lng # None
    /\ lat_lng' = call[t].args.lat_lng
    /\ pc' = [pc EXCEPT ![t] = "q_format"]
    /\ UNCHANGED <<sensor, request_params, dicts, call, places, last_sensor>>

\* lines 160-161 without lat_lng: self._lat_lng = geocode_location(location)
QueryGeocode(t, reply) ==
    /\ pc[t] = "q_latlng"
    /\ call[t].args.lat_lng = None
    /\ LET g == geocode_location(call[t].args.location[1], FALSE, reply)
           c == [call[t] EXCEPT !.net = Append(@, g.req), !.geo = reply]
       IN  IF g.err # NoError
           THEN /\ call' = [call EXCEPT ![t] = Finish(c, g.err, None)]
                /\ pc' = [pc EXCEPT ![t] = "idle"]
                /\ UNCHANGED lat_lng
           ELSE /\ call' = [call EXCEPT ![t] = c]
                /\ lat_lng' = g.ret
                /\ pc' = [pc EXCEPT ![t] = "q_format"]
    /\ UNCHANGED <<sensor, request_params, dicts, places, last_sensor>>

\* lines 162-164: clamp the radius, format self._lat_lng
QueryFormat(t) ==
    /\ pc[t] = "q_format"
    /\ call' = [call EXCEPT ![t].radius = ClampRadius(call[t].args.radius),
                            ![t].lat_lng_str = LatLngStr(lat_lng[1])]
    /\ pc' = [pc EXCEPT ![t] = "q_params"]
    /\ UNCHANGED <<sensor, lat_lng, request_params, dicts, places, last_sensor>>

\* line 165: self._request_params = {'location': ..., 'radius': ...}
QueryParams(t) ==
    /\ pc[t] = "q_params"
    /\ dicts' = [dicts EXCEPT ![t] = [location |-> call[t].lat_lng_str,
                                      radius |-> call[t].radius]]
    /\ request_params' = Some(t)
    /\ pc' = [pc EXCEPT ![t] = "q_types"]
    /\ UNCHANGED <<sensor, lat_lng, call, places, last_sensor>>

\* lines 166-167
QueryTypes(t) ==
    /\ pc[t] = "q_types"
    /\ IF Len(call[t].args.types) > 0
       THEN dicts' = SetItem("types", Join(call[t].args.types))
       ELSE UNCHANGED dicts
    /\ pc' = [pc EXCEPT ![t] = "q_keyword"]
    /\ UNCHANGED <<sensor, lat_lng, request_params, call, places, last_sensor>>

\* lines 168-169
QueryKeyword(t) ==
    /\ pc[t] = "q_keyword"
    /\ IF call[t].args.keyword # None
       THEN dicts' = SetItem("keyword", call[t].args.keyword[1])
       ELSE UNCHANGED dicts
    /\ pc' = [pc EXCEPT ![t] = "q_name"]
    /\ UNCHANGED <<sensor, lat_lng, request_params, call, places, last_sensor>>

\* lines 170-171
QueryName(t) ==
    /\ pc[t] = "q_name"
    /\ IF call[t].args.name # None
       THEN dicts' = SetItem("name", call[t].args.name[1])
       ELSE UNCHANGED dicts
    /\ pc' = [pc EXCEPT ![t] = "q_key"]
    /\ UNCHANGED <<sensor, lat_lng, request_params, call, places, last_sensor>>

\* _add_required_param_keys, line 204
QueryAddKey(t) ==
    /\ pc[t] = "q_key"
    /\ dicts' = SetItem("key", api_key)
    /\ pc' = [pc EXCEPT ![t] = "q_sensor"]
    /\ UNCHANGED <<sensor, lat_lng, request_params, call, places, last_sensor>>

\* _add_required_param_keys, line 205
QueryAddSensor(t) ==
    /\ pc[t] = "q_sensor"
    /\ dicts' = SetItem("sensor", SensorStr(sensor))
    /\ pc' = [pc EXCEPT ![t] = "q_fetch"]
    /\ UNCHANGED <<sensor, lat_lng, request_params, call, places, last_sensor>>

\* lines 173-174: the search request goes out with self._request_params
QueryFetch(t) ==
    /\ pc[t] = "q_fetch"
    /\ call' = [call EXCEPT ![t].net =
                   Append(@, _fetch_remote_json(QUERY_API_URL, dicts[Target], FALSE))]
    /\ pc' = [pc EXCEPT ![t] = "q_resp"]
    /\ UNCHANGED <<sensor, lat_lng, request_params, dicts, places, last_sensor>>

\* GooglePlacesSearchResult.__init__: one Place per entry of results
NewPlaces(results) == [i \in 1..Len(results) |-> Place(results[i])]
SearchResult(first, places_response) ==
    [places |-> [i \in 1..Len(places_response.results) |-> first + i],
     html_attributions |-> places_response.html_attributions]

\* lines 173-176: the reply arrives, is validated and wrapped
QueryRespond(t, reply) ==
    /\ pc[t] = "q_resp"
    /\ pc' = [pc EXCEPT ![t] = "idle"]
    /\ IF reply = None
       THEN /\ call' = [call EXCEPT ![t] = Finish(@, URLError, None)]
            /\ UNCHANGED places
       ELSE LET places_response == reply[1]
                url == call[t].net[Len(call[t].net)].url
                v == _validate_response(url, places_response)
            IN  IF v # NoError
                THEN /\ call' = [call EXCEPT ![t] = Finish(@, v, None)]
                     /\ UNCHANGED places
                ELSE /\ Len(places) + Len(places_response.results) <= MaxPlaces
                     /\ places' = places \o NewPlaces(places_response.results)
                     /\ call' = [call EXCEPT ![t] =
                           Finish(@, NoError, Some(SearchResult(Len(places), places_response)))]
    /\ UNCHANGED <<sensor, lat_lng, request_params, dicts, last_sensor>>

\* ---------------------------------------- GooglePlaces.checkin / get_place
\* lines 186-190
Checkin(t, reference, sensor_arg, reply) ==
    LET req == _fetch_remote_json(
                   [base |-> CHECKIN_API_URL,
                    query |-> [sensor |-> SensorStr(sensor_arg), key |-> api_key]],
                   [reference |-> reference], TRUE)
        err == IF reply = None THEN URLError
               ELSE _validate_response(req.url, reply[1])
    IN  [req |-> req, err |-> err, ret |-> None]

ClientCheckin(t, reference, sensor_arg, reply) ==
    /\ pc[t] = "idle"
    /\ LET r == Checkin(t, reference, sensor_arg, reply)
           c == NewCall("checkin", [reference |-> reference, sensor |-> sensor_arg])
       IN  call' = [call EXCEPT ![t] = Finish([c EXCEPT !.net = <<r.req>>], r.err, None)]
    /\ UNCHANGED <<sensor, lat_lng, request_params, dicts, pc, places, last_sensor>>

\* lines 200-201
GetPlace(t, reference, sensor_arg, reply) ==
    /\ pc[t] = "idle"
    /\ LET r == _get_place_details(reference, api_key, sensor_arg, reply)
           c == [NewCall("get_place", [reference |-> reference, sensor |-> sensor_arg])
                   EXCEPT !.net = <<r.req>>]
       IN  IF r.err # NoError
           THEN /\ call' = [call EXCEPT ![t] = Finish(c, r.err, None)]
                /\ UNCHANGED places
           ELSE IF r.ret[1] = None
           THEN /\ call' = [call EXCEPT ![t] = Finish(c, TypeError, None)]
                /\ UNCHANGED places
           ELSE /\ Len(places) < MaxPlaces
                /\ places' = Append(places, Place(r.ret[1]))
                /\ call' = [call EXCEPT ![t] = Finish(c, NoError, Some(Len(places) + 1))]
    /\ UNCHANGED <<sensor, lat_lng, request_params, dicts, pc, last_sensor>>

\* geocode_location called directly (it is exported in __all__)
Geocode(t, location, sensor_arg, reply) ==
    /\ pc[t] = "idle"
    /\ LET g == geocode_location(location, sensor_arg, reply)
           c == [NewCall("geocode", [location |-> location, sensor |-> sensor_arg])
                   EXCEPT !.net = <<g.req>>, !.geo = reply]
       IN  call' = [call EXCEPT ![t] = Finish(c, g.err, g.ret)]
    /\ UNCHANGED <<sensor, lat_lng, request_params, dicts, pc, places, last_sensor>>

\* ------------------------------------------------------- Place operations
\* Place.get_details, line 406: the fetch happens only without a payload
NeedsFetchAlways(place) == TRUE
NeedsFetch(place) == place.details = None

\* The sensor flag a Place hands to its client, lines 398 and 409
PlaceSensorDefault == FALSE
PlaceSensor == sensor

\* lines 406-409; a Summary Place is fetched for at most MaxDetailRequests
\* times
PlaceGetDetails(t, p, reply) ==
    /\ pc[t] = "idle"
    /\ p \in 1..Len(places)
    /\ LET place == places[p]
           c == NewCall("get_details", [place |-> p])
       IN  IF ~NeedsFetch(place)
           THEN /\ reply = None
                /\ places' = [places EXCEPT ![p].called = TRUE]
                /\ call' = [call EXCEPT ![t] = Finish(c, NoError, None)]
           ELSE /\ place.detail_requests < MaxDetailRequests
                /\ LET r == _get_place_details(place.reference, api_key, PlaceSensor, reply)
                       c1 == [c EXCEPT !.net = <<r.req>>]
                       p1 == [place EXCEPT !.called = TRUE,
                                           !.detail_requests = @ + 1]
                   IN  IF r.err # NoError
                       THEN /\ places' = [places EXCEPT ![p] = p1]
                            /\ call' = [call EXCEPT ![t] = Finish(c1, r.err, None)]
                       ELSE /\ places' = [places EXCEPT ![p] =
                                  [p1 EXCEPT !.details = IF r.ret[1] = None THEN None ELSE r.ret,
                                             !.fetched = IF r.ret[1] = None THEN None ELSE r.ret]]
                            /\ call' = [call EXCEPT ![t] = Finish(c1, NoError, None)]
    /\ UNCHANGED <<sensor, lat_lng, request_params, dicts, pc, last_sensor>>

\* lines 397-398
PlaceCheckin(t, p, reply) ==
    /\ pc[t] = "idle"
    /\ p \in 1..Len(places)
    /\ LET r == Checkin(t, places[p].reference, PlaceSensor, reply)
           c == [NewCall("place_checkin", [place |-> p]) EXCEPT !.net = <<r.req>>]
       IN  call' = [call EXCEPT ![t] = Finish(c, r.err, None)]
    /\ UNCHANGED <<sensor, lat_lng, request_params, dicts, pc, places, last_sensor>>

\* lines 333-387: reading one of the detail properties
PlaceRead(t, p, field) ==
    /\ pc[t] = "idle"
    /\ p \in 1..Len(places)
    /\ LET r == ReadProperty(places[p], field)
           c == NewCall("read", [place |-> p, field |-> field])
       IN  call' = [call EXCEPT ![t] = Finish(c, r.err, r.ret)]
    /\ UNCHANGED <<sensor, lat_lng, request_params, dicts, pc, places, last_sensor>>

\* ------------------------------------------------------------ input sets
Positions == {[location |-> None, lat_lng |-> None],
              [location |-> Some("London"), lat_lng |-> None],
              [location |-> None, lat_lng |-> Some(L1)],
              [location |-> Some("London"), lat_lng |-> Some(L1)]}
Options == {[types |-> <<>>, keyword |-> None, name |-> None],
            [types |-> <<"cafe", "bar">>, keyword |-> Some("pizza"), name |-> Some("Joe")]}

MakeArgs(pos, o, radius, s) ==
    [location |-> pos.location, lat_lng |-> pos.lat_lng, keyword |-> o.keyword,
     radius |-> radius, sensor |-> s, types |-> o.types, name |-> o.name]

QueryArgs == {MakeArgs(pos, o, r, s) : pos \in Positions, o \in Options,
                                       r \in Radii, s \in BOOLEAN}
\* the searches used where only the client's sensor flag and the places matter
PlainQueryArgs == {MakeArgs(pos, CHOOSE o \in Options : o.types = <<>>, DEFAULT_RADIUS, s) :
                      pos \in Positions, s \in BOOLEAN}

GeocodeBodies == {[status |-> s, results |-> r] :
                     s \in Statuses, r \in {<<>>, <<L2>>, <<L2, L1>>}}
StatusBodies == {[status |-> s] : s \in Statuses}

\* two searches that differ in every parameter, for the two-thread runs
ConcQueryArgs ==
    {MakeArgs([location |-> None, lat_lng |-> Some(L1)],
              [types |-> <<>>, keyword |-> None, name |-> None], DEFAULT_RADIUS, FALSE),
     MakeArgs([location |-> Some("London"), lat_lng |-> None],
              [types |-> <<"cafe", "bar">>, keyword |-> Some("pizza"), name |-> Some("Joe")],
              MAXIMUM_SEARCH_RADIUS + 1, TRUE)}

ConcGeocodeReplies == {None, Some([status |-> RESPONSE_STATUS_OK, results |-> <<L2>>])}
ConcSearchReplies ==
    {None, Some([status |-> RESPONSE_STATUS_OK, results |-> <<>>, html_attributions |-> <<>>])}

\* a search-result entry and detail results for a reference
Summary(ref) == [reference |-> ref, name |-> "Cafe X"]
Full(ref) == [reference |-> ref, name |-> "Cafe X",
              address_components |-> <<"Main St">>,
              formatted_address |-> "1 Main St",
              formatted_phone_number |-> "555",
              international_phone_number |-> "+1 555",
              website |-> "http://x", url |-> "http://g/x",
              html_attributions |-> <<"<a>X</a>">>]
NoAddress(ref) == [reference |-> ref, name |-> "Cafe X",
                   formatted_phone_number |-> "555", website |-> "http://x"]

SearchBodies(refs) ==
    {[status |-> s, results |-> r, html_attributions |-> <<"<a>X</a>">>] :
        s \in Statuses,
        r \in {<<>>} \cup {<<Summary(x)>> : x \in refs}
                     \cup {<<Summary(x), Summary(y)>> : x \in refs, y \in refs}}
DetailResults(ref) == {None, Full(ref), NoAddress(ref)}
DetailBodies(ref) ==
    StatusBodies \cup {[status |-> s, result |-> x] : s \in Statuses, x \in DetailResults(ref)}

\* detail replies whose result, when there is one, is a complete detail object
CompleteDetailBodies(ref) ==
    StatusBodies \cup {[status |-> s, result |-> Full(ref)] : s \in Statuses}

\* ---------------------------------------------------------- specifications
QuerySteps(t, geocode_replies, search_replies) ==
    \/ QueryLatLng(t)
    \/ \E reply \in geocode_replies : QueryGeocode(t, reply)
    \/ QueryFormat(t)
    \/ QueryParams(t)
    \/ QueryTypes(t)
    \/ QueryKeyword(t)
    \/ QueryName(t)
    \/ QueryAddKey(t)
    \/ QueryAddSensor(t)
    \/ QueryFetch(t)
    \/ \E reply \in search_replies : QueryRespond(t, reply)

\* The client used from one thread, as the library is written to be used
Next ==
    \/ \E a \in QueryArgs : QueryBegin(MainThread, a)
    \/ QuerySteps(MainThread, Replies(GeocodeBodies), Replies(SearchBodies({"r1"})))
    \/ \E ref \in Refs, s \in BOOLEAN, reply \in Replies(StatusBodies) :
          ClientCheckin(MainThread, ref, s, reply)
    \/ \E s \in BOOLEAN, reply \in Replies(DetailBodies("r1")) :
          GetPlace(MainThread, "r1", s, reply)
    \/ \E loc \in {"London", "Nowhereville"}, s \in BOOLEAN, reply \in Replies(GeocodeBodies) :
          Geocode(MainThread, loc, s, reply)

Spec == Init /\ [][Next]_vars

\* Places and the client that owns them, from one thread
PlaceNext ==
    \/ \E a \in PlainQueryArgs : QueryBegin(MainThread, a)
    \/ QuerySteps(MainThread, Replies(GeocodeBodies), Replies(SearchBodies({"r1"})))
    \/ \E reply \in Replies(CompleteDetailBodies("r2")) : GetPlace(MainThread, "r2", FALSE, reply)
    \/ \E p \in 1..Len(places) :
          \E reply \in Replies(DetailBodies(places[p].reference)) :
             PlaceGetDetails(MainThread, p, reply)
    \/ \E p \in 1..Len(places), reply \in Replies(StatusBodies) :
          PlaceCheckin(MainThread, p, reply)
    \/ \E p \in 1..Len(places), field \in DetailFields : PlaceRead(MainThread, p, field)

PlaceSpec == Init /\ [][PlaceNext]_vars

\* Two threads sharing one client, each running searches
ConcNext ==
    \E t \in Threads :
        \/ \E a \in ConcQueryArgs : QueryBegin(t, a)
        \/ QuerySteps(t, ConcGeocodeReplies, ConcSearchReplies)

ConcSpec == Init /\ [][ConcNext]_vars

\* ================================================================ properties
Succeeded(c) == c.done /\ c.err = NoError
T == MainThread
SearchSent(c) == c.op = "query" /\ Len(c.net) > 0 /\ c.net[Len(c.net)].url.base = QUERY_API_URL
SearchParams(c) == c.net[Len(c.net)].url.query

\* C1: a Place becomes Detailed only by a get_details() call on it, a
\* Detailed Place stays Detailed (so the promotion happens at most once), and
\* a checkin() or a field read leaves every Place exactly as it was.
C1_LifecycleMonotonic ==
    [][/\ \A p \in 1..Len(places) :
            /\ IsDetailed(places[p]) => IsDetailed(places'[p])
            /\ (IsSummary(places[p]) /\ IsDetailed(places'[p]))
                  => (call'[T].op = "get_details" /\ call'[T].args.place = p)
       /\ call'[T].op \in {"place_checkin", "read"} => places' = places]_vars

\* C1 witness: a Place promoted by get_details(), then checked in
C1_Witness ==
    /\ call[T].op = "place_checkin"
    /\ IsDetailed(places[call[T].args.place])
    /\ places[call[T].args.place].fetched # None

\* C2 as stated: no Place ever has more than one detail request issued for it
C2_AtMostOneRequestEver ==
    \A p \in 1..Len(places) : places[p].detail_requests <= 1

\* C2 amended: get_details() on a Detailed Place issues no request and on a
\* Summary Place issues exactly one, so no request follows the one whose
\* result was stored.
C2_OneRequestPerStoredPayload ==
    [][\A p \in 1..Len(places) :
          /\ IsDetailed(places[p]) => places'[p].detail_requests = places[p].detail_requests
          /\ (call'[T].op = "get_details" /\ call'[T].args.place = p /\ call'[T] # call[T])
                => /\ Len(call'[T].net) = (IF IsDetailed(places[p]) THEN 0 ELSE 1)
                   /\ places'[p].detail_requests
                         = places[p].detail_requests + Len(call'[T].net)]_vars

\* C2 witness: a second get_details() on a Place that already holds the
\* payload of its single request
C2_Witness ==
    /\ call[T].op = "get_details"
    /\ call[T].net = <<>>
    /\ places[call[T].args.place].fetched # None
    /\ places[call[T].args.place].detail_requests = 1

\* The key of the detail response that a detail field reports
ResponseKey(field) ==
    CASE field = "local_phone_number" -> "formatted_phone_number"
      [] OTHER -> field
ResponseValue(result, field) ==
    IF field = "details" THEN Some(result)
    ELSE IF ResponseKey(field) \in DOMAIN result THEN Some(result[ResponseKey(field)])
    ELSE IF field = "html_attributions" THEN Some(<<>>)
    ELSE None

SummaryReadsFail ==
    /\ \A p \in 1..Len(places), f \in DetailFields :
          IsSummary(places[p]) => ReadProperty(places[p], f).err = AttributeError
    /\ call[T].op = "read" => call[T].net = <<>>

C4_GetPlaceReturnsDetailed ==
    (call[T].op = "get_place" /\ Succeeded(call[T]))
       => IsDetailed(places[call[T].ret[1]])

\* The coordinates, and the parameters, a search is entitled to send
OwnLatLng(c) ==
    IF c.args.lat_lng # None THEN c.args.lat_lng[1] ELSE c.geo[1].results[1]
OwnParams(c) ==
    [location |-> <<OwnLatLng(c).lat, ",", OwnLatLng(c).lng>>,
     radius |-> IF c.args.radius > 50000 THEN 50000 ELSE c.args.radius,
     key |-> api_key,
     sensor |-> IF c.args.sensor THEN "true" ELSE "false"]
    @@ (IF c.args.types # <<>> THEN [types |-> Join(c.args.types)] ELSE <<>>)
    @@ (IF c.args.keyword # None THEN [keyword |-> c.args.keyword[1]] ELSE <<>>)
    @@ (IF c.args.name # None THEN [name |-> c.args.name[1]] ELSE <<>>)

\* C5: the search request a query() call transmits carries that call's own
\* location, radius, types, keyword, name and sensor, however the calls of
\* the threads interleave.
C5_OwnParametersSent ==
    \A t \in Threads : SearchSent(call[t]) => SearchParams(call[t]) = OwnParams(call[t])

\* C6: query() raises the invalid-argument ValueError exactly when location
\* and lat_lng are both omitted, with no request sent, and the raising step
\* leaves the client and the places untouched.
C6_ValueErrorIffNoPosition ==
    /\ [](call[T].op = "query" =>
            /\ call[T].err = ValueError
                  <=> (call[T].args.location = None /\ call[T].args.lat_lng = None)
            /\ call[T].err = ValueError => (call[T].net = <<>> /\ call[T].done))
    /\ [][(call'[T].op = "query" /\ call'[T].err = ValueError)
            => UNCHANGED <<sensor, lat_lng, request_params, dicts, places, pc>>]_vars

\* C6 witness: a rejected query
C6_Witness ==
    /\ call[T].op = "query"
    /\ call[T].err = ValueError
    /\ call[T].args.location = None /\ call[T].args.lat_lng = None
    /\ request_params # None

IsRequest(r, method, base) ==
    /\ r.method = method
    /\ r.url.base = base

C8_GeocodeZeroResultsFatal ==
    LET c == call[T] IN
    (c.op = "geocode" /\ c.geo # None) =>
       LET st == c.geo[1].status IN
       /\ st = "ZERO_RESULTS"
             => /\ c.err.exc = "GooglePlacesError"
                /\ Len(c.err.msg) = 3
                /\ c.err.msg[2] = c.args.location
       /\ st \notin {"OK", "ZERO_RESULTS"}
             => /\ c.err.exc = "GooglePlacesError"
                /\ Len(c.err.msg) = 4
                /\ c.err.msg[2] = c.net[1].url
                /\ c.err.msg[4] = st
       /\ c.err = NoError => (st = "OK" /\ c.ret = Some(c.geo[1].results[1]))

\* C8 witness: a ZERO_RESULTS geocode that still lists a result
C8_Witness ==
    /\ call[T].op = "geocode"
    /\ call[T].geo # None
    /\ call[T].geo[1].status = "ZERO_RESULTS"
    /\ Len(call[T].geo[1].results) > 0
    /\ call[T].args.location = "Nowhereville"
    /\ call[T].err.exc = "GooglePlacesError"

\* C9: the radius in the transmitted search parameters is 50000 for every
\* radius above 50000 and the radius itself otherwise, and a query that got
\* past the clamp has raised nothing.
C9_RadiusClamped ==
    LET c == call[T] IN
    /\ SearchSent(c) =>
          SearchParams(c).radius = (IF c.args.radius > 50000 THEN 50000 ELSE c.args.radius)
    /\ pc[T] \in {"q_params", "q_types", "q_keyword", "q_name", "q_key", "q_sensor",
                  "q_fetch", "q_resp"} => c.err = NoError

\* C9 witness: a search sent with a radius that was too large
C9_Witness ==
    /\ SearchSent(call[T])
    /\ call[T].args.radius > 50000
    /\ SearchParams(call[T]).radius = 50000

SentSensor(c) == c.net[1].url.query.sensor

\* C10: every query() that passes its argument check sets the client's
\* sensor flag to its sensor argument, whatever happens to the query later;
\* Place.get_details() and Place.checkin() send the flag of the latest such
\* query (false when there was none); and only query() changes the flag.
C10_SensorFollowsLastQuery ==
    /\ [](/\ (call[T].op = "query" /\ call[T].err # ValueError)
               => (sensor = call[T].args.sensor /\ last_sensor = call[T].args.sensor)
          /\ (call[T].op \in {"get_details", "place_checkin"} /\ call[T].net # <<>>)
               => SentSensor(call[T]) = (IF last_sensor THEN "true" ELSE "false"))
    /\ [][call'[T].op # "query" => (sensor' = sensor /\ last_sensor' = last_sensor)]_vars

\* C10 witness: get_details() sending sensor=true after a sensor=true query
C10_Witness ==
    /\ call[T].op = "get_details"
    /\ call[T].net # <<>>
    /\ SentSensor(call[T]) = "true"
    /\ last_sensor
====
